---- MODULE Spec2Model ----
(***************************************************************************)
(* exabgp_notify.py: the stdin loop of main(), the two noise-control       *)
(* closures (make_dedup, make_throttler), the line matcher RE_LINE and the *)
(* two senders.                                                            *)
(*                                                                         *)
(* Two processes are modelled side by side, fed the same lines at the same *)
(* clock values: run "live" has DRY_RUN off, run "dry" has DRY_RUN on.     *)
(* Every other setting is shared.  Each per-run variable is a function     *)
(* over Runs.                                                              *)
(***************************************************************************)
EXTENDS Integers, Sequences, FiniteSets, TLC

\* ------------------------------------------------------------------ bounds
MaxTime   == 2      \* the clock int(time.time()) ranges over 0..MaxTime
MaxLines  == 2      \* at most this many lines arrive on stdin
MaxTtl    == 2      \* DEDUP_TTL_SEC ranges over -1..MaxTtl
MaxWindow == 1      \* THROTTLE_WINDOW_SEC ranges over -1..MaxWindow
MaxEvents == 2      \* THROTTLE_MAX ranges over -1..MaxEvents
MaxCalls  == 4      \* the rate limiter on its own admits at most this many calls

Runs == {"live", "dry"}

\* ------------------------------------------------------------ input lines
ActionTokens == {"added", "ADDED", "removed"}
Prefixes     == {"187.120.203.0/24"}
Neighbors    == {"172.31.192.1"}
\* next-hop, local-preference and community of a route line
Attrs == { [nexthop |-> "10.0.0.1", lpref |-> "210", comm |-> "53140:615"] }

RouteLines == [kind : {"route"}, action : ActionTokens, prefix : Prefixes,
               neighbor : Neighbors, attrs : Attrs]
EmptyLine   == [kind |-> "empty"]
GarbageLine == [kind |-> "garbage"]
Lines == RouteLines \cup {EmptyLine, GarbageLine}

NoLine  == [kind |-> "none"]
NoMatch == [matched |-> FALSE]

\* str.lower() on the action tokens
Lower(tok) ==
  CASE tok \in {"added", "ADDED"}     -> "added"
    [] tok \in {"removed", "REMOVED"} -> "removed"
    [] OTHER                          -> tok

\* RE_LINE.search(line): the groups hold the text as it stands in the line
\* (re.IGNORECASE lets "ADDED" match, the group keeps "ADDED")
RE_LINE_search(line) ==
  IF line.kind = "route"
  THEN [matched |-> TRUE, action |-> line.action, prefix |-> line.prefix,
        neighbor |-> line.neighbor, attrs |-> line.attrs]
  ELSE NoMatch

\* key = f"{d['action']}|{d['prefix']}|{d['neighbor']}"
DedupKey(d) == <<d.action, d.prefix, d.neighbor>>

Keys == ActionTokens \X Prefixes \X Neighbors

\* the DedupKey of the data model: (action as enum, prefix, neighbor)
NormKey(k) == <<Lower(k[1]), k[2], k[3]>>

\* no admission yet: before every clock value
NoTime == 0 - 1

\* the config file is not there (FileNotFoundError); a dict without entries
NoFile    == [exists |-> FALSE, lines |-> <<>>]
NoEntries == [k \in {} |-> ""]

VARIABLES
  argv,             \* sys.argv[1:]
  cfgfile,          \* the config file: whether it exists, and its lines
  environ,          \* os.environ
  only_actions,     \* set of lower-case action names
  throttle_window,  \* THROTTLE_WINDOW_SEC
  throttle_max,     \* THROTTLE_MAX
  dedup_ttl,        \* DEDUP_TTL_SEC
  tg_set,           \* tg_token and tg_chat
  mail_set,         \* smtp_host and mail_from and mail_to
  dry_run,          \* per run: DRY_RUN
  now,              \* int(time.time())
  stdin,            \* number of lines still to come on stdin
  pc,               \* per run: "args" | "settings" | "read" | "tg" | "mail" | "done"
  status,           \* per run: "running" | "eof" | "interrupt" | "usage"
  cache,            \* per run: make_dedup's dict, key -> expiry
  events,           \* per run: make_throttler's deque of timestamps
  disp,             \* per run: what the senders did for the current event
  last,             \* per run: how the last line read was handled
  admittedAt,       \* per run, per key: time of the last admission by dedup
  rateLog           \* per run: times of all calls the throttler admitted

\* what the process is started with
inVars == <<argv, cfgfile, environ>>

cfgVars == <<inVars, only_actions, throttle_window, throttle_max, dedup_ttl,
             tg_set, mail_set, dry_run>>
vars == <<argv, cfgfile, environ, only_actions, throttle_window, throttle_max,
          dedup_ttl, tg_set, mail_set, dry_run, now, stdin, pc, status,
          cache, events, disp, last, admittedAt, rateLog>>

\* ----------------------------------------------------------- make_throttler
RECURSIVE ThrottlerEvict_AtWindow(_, _, _)
ThrottlerEvict_AtWindow(ev, t, w) ==
  IF ev /= <<>> /\ (t - Head(ev)) >= w
  THEN ThrottlerEvict_AtWindow(Tail(ev), t, w)
  ELSE ev

ThrottlerEvict_Once(ev, t, w) ==
  IF ev /= <<>> /\ (t - Head(ev)) > w THEN Tail(ev) ELSE ev

\* while events and (t - events[0]) > window_sec: events.popleft()
RECURSIVE ThrottlerEvict(_, _, _)
ThrottlerEvict(ev, t, w) ==
  IF ev /= <<>> /\ (t - Head(ev)) > w
  THEN ThrottlerEvict(Tail(ev), t, w)
  ELSE ev

ThrottlerAllowed_OverCap(ev, t, w, mx) ==
  LET kept == ThrottlerEvict(ev, t, w) IN
  IF Len(kept) > mx
  THEN [ok |-> FALSE, events |-> kept]
  ELSE [ok |-> TRUE,  events |-> Append(kept, t)]

ThrottlerAllowed_Record(ev, t, w, mx) ==
  LET kept == ThrottlerEvict(ev, t, w) IN
  IF Len(kept) >= mx
  THEN [ok |-> FALSE, events |-> Append(kept, t)]
  ELSE [ok |-> TRUE,  events |-> Append(kept, t)]

\* make_throttler.allowed
ThrottlerAllowed(ev, t, w, mx) ==
  LET kept == ThrottlerEvict(ev, t, w) IN
  IF Len(kept) >= mx
  THEN [ok |-> FALSE, events |-> kept]
  ELSE [ok |-> TRUE,  events |-> Append(kept, t)]

\* --------------------------------------------------------------- make_dedup
DedupSweep_None(c, t) == c

DedupSweep_Late(c, t) ==
  [k \in {x \in DOMAIN c : ~(c[x] < t)} |-> c[k]]

\* for k, exp in list(cache.items()): if exp <= t: cache.pop(k, None)
DedupSweep(c, t) ==
  [k \in {x \in DOMAIN c : ~(c[x] <= t)} |-> c[k]]

\* cache = {}
EmptyCache == [k \in {} |-> 0]

DedupPut_Later(c, key, exp) ==
  [k \in DOMAIN c \cup {key} |-> IF k = key THEN exp + 1 ELSE c[k]]

\* cache[key] = t + ttl_sec
DedupPut(c, key, exp) ==
  [k \in DOMAIN c \cup {key} |-> IF k = key THEN exp ELSE c[k]]

DedupAllowed_Refresh(c, key, t, ttl) ==
  LET kept == DedupSweep(c, t) IN
  IF key \in DOMAIN kept
  THEN [ok |-> FALSE, cache |-> DedupPut(kept, key, t + ttl)]
  ELSE [ok |-> TRUE,  cache |-> DedupPut(kept, key, t + ttl)]

\* make_dedup.allowed
DedupAllowed(c, key, t, ttl) ==
  LET kept == DedupSweep(c, t) IN
  IF key \in DOMAIN kept
  THEN [ok |-> FALSE, cache |-> kept]
  ELSE [ok |-> TRUE,  cache |-> DedupPut(kept, key, t + ttl)]

\* ------------------------------------------------------------ main(): loop
NoKey  == <<>>
NoDisp == [tg |-> "none", mail |-> "none", log |-> {}]

Selected_All(d) == TRUE

\* action = d["action"].lower(); if action not in only_actions: continue
Selected(d) == Lower(d.action) \in only_actions

Gates_RateFirst(c, ev, key, t) ==
  LET th == ThrottlerAllowed(ev, t, throttle_window, throttle_max) IN
  IF ~th.ok
  THEN [dedup |-> "skip", rate |-> "suppress", cache |-> c,
        events |-> th.events]
  ELSE LET d == DedupAllowed(c, key, t, dedup_ttl) IN
       [dedup |-> IF d.ok THEN "admit" ELSE "suppress", rate |-> "admit",
        cache |-> d.cache, events |-> th.events]

Gates_Rollback(c, ev, key, t) ==
  LET d == DedupAllowed(c, key, t, dedup_ttl) IN
  IF ~d.ok
  THEN [dedup |-> "suppress", rate |-> "skip", cache |-> d.cache,
        events |-> ev]
  ELSE LET th == ThrottlerAllowed(ev, t, throttle_window, throttle_max) IN
       [dedup |-> "admit", rate |-> IF th.ok THEN "admit" ELSE "suppress",
        cache |-> IF th.ok THEN d.cache ELSE DedupSweep(c, t),
        events |-> th.events]

\* if not allowed_by_dedup(key): continue
\* if not allowed_by_rate(): continue
Gates(c, ev, key, t) ==
  LET d == DedupAllowed(c, key, t, dedup_ttl) IN
  IF ~d.ok
  THEN [dedup |-> "suppress", rate |-> "skip", cache |-> d.cache,
        events |-> ev]
  ELSE LET th == ThrottlerAllowed(ev, t, throttle_window, throttle_max) IN
       [dedup |-> "admit", rate |-> IF th.ok THEN "admit" ELSE "suppress",
        cache |-> d.cache, events |-> th.events]

AfterMatch_DryFirst(r, d, t) ==
  IF dry_run[r]
  THEN [kind |-> "event", key |-> DedupKey(d), dedup |-> "skip",
        rate |-> "skip", cache |-> cache[r], events |-> events[r],
        pc |-> "read"]
  ELSE LET g == Gates(cache[r], events[r], DedupKey(d), t) IN
       [kind |-> "event", key |-> DedupKey(d), dedup |-> g.dedup,
        rate |-> g.rate, cache |-> g.cache, events |-> g.events,
        pc |-> IF g.rate = "admit" THEN "tg" ELSE "read"]

AfterMatch_NoRateGate(r, d, t) ==
  LET g == Gates(cache[r], events[r], DedupKey(d), t) IN
  [kind |-> "event", key |-> DedupKey(d), dedup |-> g.dedup,
   rate |-> g.rate, cache |-> g.cache, events |-> g.events,
   pc |-> IF g.dedup = "admit" /\ ~dry_run[r] THEN "tg" ELSE "read"]

\* the loop body once the line matched and its action is selected:
\* build the key, pass the gates, then either trace (dry run) or dispatch
AfterMatch(r, d, t) ==
  LET g == Gates(cache[r], events[r], DedupKey(d), t) IN
  [kind |-> "event", key |-> DedupKey(d), dedup |-> g.dedup,
   rate |-> g.rate, cache |-> g.cache, events |-> g.events,
   pc |-> IF g.rate = "admit" /\ ~dry_run[r] THEN "tg" ELSE "read"]

\* a line the loop leaves with "continue" before the gates
Skipped(r, kind) ==
  [kind |-> kind, key |-> NoKey, dedup |-> "skip", rate |-> "skip",
   cache |-> cache[r], events |-> events[r], pc |-> "read"]

\* one iteration of "for raw in sys.stdin" up to the dispatch
HandleLine(r, line, t) ==
  LET m == RE_LINE_search(line) IN
  IF line.kind = "empty" THEN Skipped(r, "empty")
  ELSE IF ~m.matched THEN Skipped(r, "reject")
  ELSE IF ~Selected(m) THEN Skipped(r, "filtered")
  ELSE AfterMatch(r, m, t)

Max(S) == CHOOSE x \in S : \A y \in S : y <= x

\* time of the last admission of any key with the same normalized key
NormAdmittedAt(r, key) ==
  Max({admittedAt[r][k] : k \in {x \in Keys : NormKey(x) = NormKey(key)}})

\* the blocking read of the next line returns after some time has passed;
\* the gates then read the clock
ReadLine ==
  /\ stdin > 0
  /\ \A r \in Runs : pc[r] = "read"
  /\ \E line \in Lines, t \in now..MaxTime :
       LET h == [r \in Runs |-> HandleLine(r, line, t)] IN
       /\ now' = t
       /\ stdin' = stdin - 1
       /\ cache' = [r \in Runs |-> h[r].cache]
       /\ events' = [r \in Runs |-> h[r].events]
       /\ pc' = [r \in Runs |-> h[r].pc]
       /\ disp' = [r \in Runs |-> NoDisp]
       /\ last' = [r \in Runs |->
             [line |-> line, t |-> t, kind |-> h[r].kind,
              key |-> h[r].key, dedup |-> h[r].dedup, rate |-> h[r].rate,
              prev |-> IF h[r].key = NoKey THEN NoTime
                       ELSE admittedAt[r][h[r].key],
              nprev |-> IF h[r].key = NoKey THEN NoTime
                        ELSE NormAdmittedAt(r, h[r].key)]]
       /\ admittedAt' = [r \in Runs |->
             IF h[r].dedup = "admit"
             THEN [admittedAt[r] EXCEPT ![h[r].key] = t]
             ELSE admittedAt[r]]
       /\ rateLog' = [r \in Runs |->
             IF h[r].rate = "admit" THEN Append(rateLog[r], t)
             ELSE rateLog[r]]
  /\ UNCHANGED <<cfgVars, status>>

NoLast == [line |-> NoLine, t |-> NoTime, kind |-> "none", key |-> NoKey,
           dedup |-> "skip", rate |-> "skip", prev |-> NoTime,
           nprev |-> NoTime]

\* ---------------------------------------------------------------- dispatch
\* ok: delivered; failed: the sender caught and logged a transport error;
\* raised: an exception left the sender and main()'s except clause logged it
SendOutcomes == {"ok", "failed", "raised"}

Logged(channel, o) == IF o \in {"failed", "raised"} THEN {channel} ELSE {}

PcAfterTelegram_Abort(o) == IF o = "raised" THEN "read" ELSE "mail"

\* try: send_telegram(...) except Exception: print(...)  -- then the mail try
PcAfterTelegram(o) == "mail"

PcAfterEmail_Fatal(o) == IF o = "raised" THEN "done" ELSE "read"

PcAfterEmail_Retry(o) == IF o = "failed" THEN "mail" ELSE "read"

\* try: send_email(...) except Exception: print(...)  -- then the next line
PcAfterEmail(o) == "read"

SendTelegram(r) ==
  /\ pc[r] = "tg"
  /\ \E o \in (IF tg_set THEN SendOutcomes ELSE {"unset"}) :
       /\ disp' = [disp EXCEPT ![r].tg = o,
                               ![r].log = @ \cup Logged("telegram", o)]
       /\ pc' = [pc EXCEPT ![r] = PcAfterTelegram(o)]
  /\ UNCHANGED <<cfgVars, now, stdin, status, cache, events, last,
                 admittedAt, rateLog>>

SendEmail(r) ==
  /\ pc[r] = "mail"
  /\ \E o \in (IF mail_set THEN SendOutcomes ELSE {"unset"}) :
       /\ disp' = [disp EXCEPT ![r].mail = o,
                               ![r].log = @ \cup Logged("smtp", o)]
       /\ pc' = [pc EXCEPT ![r] = PcAfterEmail(o)]
  /\ UNCHANGED <<cfgVars, now, stdin, status, cache, events, last,
                 admittedAt, rateLog>>

\* the process ends: its memory (dict, deque, locals) is gone
Exited(how) ==
  /\ pc' = [r \in Runs |-> "done"]
  /\ status' = [r \in Runs |-> how]
  /\ cache' = [r \in Runs |-> EmptyCache]
  /\ events' = [r \in Runs |-> <<>>]
  /\ disp' = [r \in Runs |-> NoDisp]
  /\ last' = [r \in Runs |-> NoLast]
  /\ admittedAt' = [r \in Runs |-> [k \in Keys |-> NoTime]]
  /\ rateLog' = [r \in Runs |-> <<>>]
  /\ UNCHANGED <<cfgVars, now, stdin>>

\* the for loop ends when stdin is exhausted; main() returns
EndOfInput ==
  /\ stdin = 0
  /\ \A r \in Runs : pc[r] = "read"
  /\ Exited("eof")

\* except KeyboardInterrupt: pass
Interrupt ==
  /\ \E r \in Runs : pc[r] /= "done"
  /\ Exited("interrupt")

\* the wall clock advances between two calls of a closure
Tick ==
  /\ now < MaxTime
  /\ now' = now + 1
  /\ UNCHANGED <<cfgVars, stdin, pc, status, cache, events, disp, last,
                 admittedAt, rateLog>>

\* both processes right after the closures are made, before the first line;
\* the settings stand for the arguments, file and environment they came from
Started ==
  /\ argv = <<>>
  /\ cfgfile = NoFile
  /\ environ = NoEntries
  /\ dry_run = [r \in Runs |-> r = "dry"]
  /\ now = 0
  /\ pc = [r \in Runs |-> "read"]
  /\ status = [r \in Runs |-> "running"]
  /\ cache = [r \in Runs |-> EmptyCache]
  /\ events = [r \in Runs |-> <<>>]
  /\ disp = [r \in Runs |-> NoDisp]
  /\ last = [r \in Runs |-> NoLast]
  /\ admittedAt = [r \in Runs |-> [k \in Keys |-> NoTime]]
  /\ rateLog = [r \in Runs |-> <<>>]

\* ------------------------------------------------- the program on its input
Init ==
  /\ only_actions \in {{"added", "removed"}, {"removed"}}
  /\ throttle_window \in {0, MaxWindow}
  /\ throttle_max \in {0, 1}
  /\ dedup_ttl \in {0, MaxTtl}
  /\ tg_set \in BOOLEAN
  /\ mail_set \in BOOLEAN
  /\ stdin \in 0..MaxLines
  /\ Started

Driver ==
  \/ ReadLine
  \/ \E r \in Runs : SendTelegram(r)
  \/ \E r \in Runs : SendEmail(r)
  \/ EndOfInput

Next ==
  \/ Driver
  \/ Interrupt

Spec == Init /\ [][Next]_vars

\* reads return (a line or end of input) and sends return (timeout=10);
\* the loop's control flow does not read the window length, so termination
\* is checked with the longer window
FairInit == Init /\ throttle_window = MaxWindow

FairSpec == FairInit /\ [][Next]_vars /\ WF_vars(Driver)

\* one line more than Spec, arriving under a cap of one event per window
BurstInit ==
  /\ only_actions = {"added", "removed"}
  /\ throttle_window \in {0, MaxWindow}
  /\ throttle_max = 1
  /\ dedup_ttl = MaxTtl
  /\ tg_set = TRUE
  /\ mail_set \in BOOLEAN
  /\ stdin = MaxLines + 1
  /\ Started

BurstSpec == BurstInit /\ [][Next]_vars

\* ------------------------------------- the deduplicator called on its own
\* allowed_by_dedup(key), any key at any time
allowed_by_dedup ==
  /\ \A r \in Runs : pc[r] = "read"
  /\ \E key \in Keys :
       LET d == [r \in Runs |-> DedupAllowed(cache[r], key, now, dedup_ttl)] IN
       /\ cache' = [r \in Runs |-> d[r].cache]
       /\ last' = [r \in Runs |->
             [line |-> NoLine, t |-> now, kind |-> "call", key |-> key,
              dedup |-> IF d[r].ok THEN "admit" ELSE "suppress",
              rate |-> "skip", prev |-> admittedAt[r][key],
              nprev |-> NormAdmittedAt(r, key)]]
       /\ admittedAt' = [r \in Runs |->
             IF d[r].ok THEN [admittedAt[r] EXCEPT ![key] = now]
             ELSE admittedAt[r]]
  /\ UNCHANGED <<cfgVars, now, stdin, pc, status, events, disp, rateLog>>

DedupInit ==
  /\ only_actions = {"added", "removed"}
  /\ throttle_window = 0
  /\ throttle_max = 0
  /\ dedup_ttl \in -1..MaxTtl
  /\ tg_set = FALSE
  /\ mail_set = FALSE
  /\ stdin = 0
  /\ Started

DedupNext ==
  \/ allowed_by_dedup
  \/ Tick

DedupSpec == DedupInit /\ [][DedupNext]_vars

\* ------------------------------------- the rate limiter called on its own
\* allowed_by_rate(), at any time
allowed_by_rate ==
  /\ \A r \in Runs : pc[r] = "read" /\ Len(rateLog[r]) < MaxCalls
  /\ LET th == [r \in Runs |->
          ThrottlerAllowed(events[r], now, throttle_window, throttle_max)] IN
     /\ events' = [r \in Runs |-> th[r].events]
     /\ last' = [r \in Runs |->
           [line |-> NoLine, t |-> now, kind |-> "call", key |-> NoKey,
            dedup |-> "skip",
            rate |-> IF th[r].ok THEN "admit" ELSE "suppress",
            prev |-> NoTime, nprev |-> NoTime]]
     /\ rateLog' = [r \in Runs |->
           IF th[r].ok THEN Append(rateLog[r], now) ELSE rateLog[r]]
  /\ UNCHANGED <<cfgVars, now, stdin, pc, status, cache, disp, admittedAt>>

ThrottleInit ==
  /\ only_actions = {"added", "removed"}
  /\ throttle_window \in -1..MaxWindow
  /\ throttle_max \in -1..MaxEvents
  /\ dedup_ttl = 0
  /\ tg_set = FALSE
  /\ mail_set = FALSE
  /\ stdin = 0
  /\ Started

ThrottleNext ==
  \/ allowed_by_rate
  \/ Tick

ThrottleSpec == ThrottleInit /\ [][ThrottleNext]_vars

\* time.time() is the wall clock: it is set back when the system clock is
ClockSetBack ==
  /\ now > 0
  /\ now' \in 0..(now - 1)
  /\ UNCHANGED <<cfgVars, stdin, pc, status, cache, events, disp, last,
                 admittedAt, rateLog>>

WallNext ==
  \/ allowed_by_rate
  \/ Tick
  \/ ClockSetBack

\* the rate limiter on its own under the wall clock
ThrottleWallSpec == ThrottleInit /\ [][WallNext]_vars

DedupWallNext ==
  \/ allowed_by_dedup
  \/ Tick
  \/ ClockSetBack

\* the deduplicator on its own under the wall clock
DedupWallSpec == DedupInit /\ [][DedupWallNext]_vars

\* ------------------------------------------------- RE_LINE on the characters
\* A line is the sequence of its clauses after "api route <action> to", each
\* a keyword and the whitespace-delimited token after it; a token is the
\* sequence of its characters.
DigitSeq == <<"0", "1", "2", "3", "4", "5", "6", "7", "8", "9">>
Digits   == {DigitSeq[i] : i \in DOMAIN DigitSeq}

Min(a, b) == IF a <= b THEN a ELSE b

\* \d+ at position i, greedy: the length of the run of digits
RECURSIVE DigitRun(_, _)
DigitRun(s, i) ==
  IF i <= Len(s) /\ s[i] \in Digits THEN 1 + DigitRun(s, i + 1) ELSE 0

\* [\d:]+ at position i, greedy: the length of the run of digits and colons
RECURSIVE CommRun(_, _)
CommRun(s, i) ==
  IF i <= Len(s) /\ s[i] \in Digits \cup {":"}
  THEN 1 + CommRun(s, i + 1) ELSE 0

\* \d{1,3}\. at position i: the position after the dot, 0 when it fails
\* (after a run of four digits no shorter choice is followed by a dot)
RE_Dotted(s, i) ==
  LET n == DigitRun(s, i) IN
  IF i > 0 /\ n \in 1..3 /\ i + n <= Len(s) /\ s[i + n] = "."
  THEN i + n + 1 ELSE 0

\* \d{1,3}(?:\.\d{1,3}){3} at position i: the position after the match, 0
\* when it fails; the last \d{1,3} takes up to three digits
RE_IPv4(s, i) ==
  LET o == RE_Dotted(s, RE_Dotted(s, RE_Dotted(s, i)))
      n == DigitRun(s, o)
  IN IF o = 0 \/ n = 0 THEN 0 ELSE o + Min(n, 3)

\* neighbor\s+(?P<neighbor>...) followed by .*? : the token starts with an
\* address, whatever comes after it
RE_Neighbor(tok) ==
  LET e == RE_IPv4(tok, 1) IN
  [ok |-> e /= 0, group |-> SubSeq(tok, 1, e - 1)]

\* :\s+(?P<prefix>.../\d{1,2})\s+ : the whole token
RE_Prefix(tok) ==
  LET e == RE_IPv4(tok, 1)
      n == DigitRun(tok, e + 1)
  IN [ok |-> /\ e /= 0 /\ e <= Len(tok) /\ tok[e] = "/"
             /\ n \in 1..2 /\ e + n = Len(tok),
      group |-> tok]

\* next-hop\s+(?P<nexthop>...)\s+ : the whole token
RE_NextHop(tok) ==
  [ok |-> RE_IPv4(tok, 1) = Len(tok) + 1, group |-> tok]

\* local-preference\s+(?P<lpref>\d+)\s+ : the whole token
RE_LPref(tok) ==
  [ok |-> Len(tok) > 0 /\ DigitRun(tok, 1) = Len(tok), group |-> tok]

\* community\s+(?P<comm>[\d:]+) and nothing required after it: the token
\* starts with digits or colons
RE_Comm(tok) ==
  LET n == CommRun(tok, 1) IN
  [ok |-> n > 0, group |-> SubSeq(tok, 1, n)]

\* the keywords in the order RE_LINE requires them
Canonical ==
  <<"neighbor", "prefix", "next-hop", "local-preference", "community">>

\* RE_LINE.search(line) on the characters: a dict of groups or None
RE_LINE_groups(raw) ==
  LET nb == RE_Neighbor(raw.tok["neighbor"])
      pf == RE_Prefix(raw.tok["prefix"])
      nh == RE_NextHop(raw.tok["next-hop"])
      lp == RE_LPref(raw.tok["local-preference"])
      cm == RE_Comm(raw.tok["community"])
  IN IF /\ Lower(raw.action) \in {"added", "removed"}
        /\ Len(raw.clauses) >= Len(Canonical)
        /\ SubSeq(raw.clauses, 1, Len(Canonical)) = Canonical
        /\ nb.ok /\ pf.ok /\ nh.ok /\ lp.ok /\ cm.ok
     THEN [matched |-> TRUE, action |-> raw.action, neighbor |-> nb.group,
           prefix |-> pf.group, nexthop |-> nh.group, lpref |-> lp.group,
           comm |-> cm.group]
     ELSE NoMatch

\* "10.0.0.1", "10.0.0.256", "10.0.0", "10.0.0.1.5"
NeighborToks ==
  { <<"1", "0", ".", "0", ".", "0", ".", "1">>,
    <<"1", "0", ".", "0", ".", "0", ".", "2", "5", "6">>,
    <<"1", "0", ".", "0", ".", "0">>,
    <<"1", "0", ".", "0", ".", "0", ".", "1", ".", "5">> }

\* "10.0.0.0/8", "256.0.0.0/8", "10.0.0.0", "10.0.0.0/245"
PrefixToks ==
  { <<"1", "0", ".", "0", ".", "0", ".", "0", "/", "8">>,
    <<"2", "5", "6", ".", "0", ".", "0", ".", "0", "/", "8">>,
    <<"1", "0", ".", "0", ".", "0", ".", "0">>,
    <<"1", "0", ".", "0", ".", "0", ".", "0", "/", "2", "4", "5">> }

\* "10.0.0.1", "10.0.0.256", "10.0.0"
NextHopToks ==
  { <<"1", "0", ".", "0", ".", "0", ".", "1">>,
    <<"1", "0", ".", "0", ".", "0", ".", "2", "5", "6">>,
    <<"1", "0", ".", "0", ".", "0">> }

\* "210", "x"
LPrefToks ==
  { <<"2", "1", "0">>,
    <<"x">> }

\* "1:2", "1", "1:x", "x:2"
CommToks ==
  { <<"1", ":", "2">>,
    <<"1">>,
    <<"1", ":", "x">>,
    <<"x", ":", "2">> }

\* the clauses in order, with trailing text, with next-hop missing, with
\* local-preference and community swapped
Shapes ==
  { Canonical,
    Canonical \o <<"extra">>,
    <<"neighbor", "prefix", "local-preference", "community">>,
    <<"neighbor", "prefix", "next-hop", "community", "local-preference">> }

RawActions == ActionTokens \cup {"changed"}

RawLines ==
  { [action |-> a, clauses |-> c,
     tok |-> [k \in {Canonical[i] : i \in DOMAIN Canonical} |->
                CASE k = "neighbor"         -> nb
                  [] k = "prefix"           -> pf
                  [] k = "next-hop"         -> nh
                  [] k = "local-preference" -> lp
                  [] k = "community"        -> cm]] :
      a \in RawActions, c \in Shapes, nb \in NeighborToks, pf \in PrefixToks,
      nh \in NextHopToks, lp \in LPrefToks, cm \in CommToks }

\* m = RE_LINE.search(line) on the next line of stdin
MatchLine ==
  /\ stdin > 0
  /\ \A r \in Runs : pc[r] = "read"
  /\ \E raw \in RawLines :
       LET m == RE_LINE_groups(raw) IN
       last' = [r \in Runs |->
                  [line |-> raw, t |-> now, kind |-> "searched", key |-> NoKey,
                   dedup |-> "skip", rate |-> "skip", prev |-> NoTime,
                   nprev |-> NoTime, d |-> m]]
  /\ stdin' = stdin - 1
  /\ UNCHANGED <<cfgVars, now, pc, status, cache, events, disp, admittedAt,
                 rateLog>>

MatcherInit ==
  /\ only_actions = {"added", "removed"}
  /\ throttle_window = 0
  /\ throttle_max = 0
  /\ dedup_ttl = 0
  /\ tg_set = FALSE
  /\ mail_set = FALSE
  /\ stdin = 1
  /\ Started

\* the line matcher on its own, given one line
MatcherSpec == MatcherInit /\ [][MatchLine]_vars

\* ----------------------------------------------------------------- startup
MaxArgs      == 2      \* at most this many command-line arguments
MaxFileLines == 2      \* at most this many lines in the config file

DefaultThrottleWindow == 60
DefaultThrottleMax    == 30
DefaultDedupTtl       == 60

Unset  == "unset"      \* a setting main() has not assigned yet
Unmade == "unmade"     \* a closure main() has not made yet

ConfigKeys == {"ONLY_ACTIONS", "THROTTLE_WINDOW_SEC", "THROTTLE_MAX",
               "DEDUP_TTL_SEC", "DRY_RUN"}

\* str.strip() on the values that occur
Strip(v) == CASE v = " 7 " -> "7" [] OTHER -> v

\* str.lower() on the values that occur
LowerText(v) == CASE v = "TRUE" -> "true" [] OTHER -> Lower(v)

\* if len(val) >= 2 and val[0] == '"' and val[-1] == '"': val = val[1:-1]
Unquote(v) == CASE v = "\"7\"" -> "7" [] OTHER -> v

\* int(): the texts it accepts, among those that occur, and their values
IntTexts == {"5", "7", "30", "60"}
IntOf(v) ==
  CASE v = "5" -> 5 [] v = "7" -> 7 [] v = "30" -> 30 [] v = "60" -> 60

\* str(default)
StrOf(n) == CHOOSE v \in IntTexts : IntOf(v) = n

\* {x.strip().lower() for x in value.split(",") if x.strip()}
SplitActions(v) ==
  CASE v = "added,removed" -> {"added", "removed"}
    [] v = "Removed"       -> {"removed"}
    [] v = "added"         -> {"added"}
    [] OTHER               -> {}

EnvPut(c, key, val) ==
  [k \in DOMAIN c \cup {key} |-> IF k = key THEN val ELSE c[k]]

\* load_envfile: comments are skipped, a later entry of a key replaces an
\* earlier one, a missing file gives an empty dict
RECURSIVE load_envfile(_)
load_envfile(file) ==
  IF ~file.exists \/ file.lines = <<>> THEN NoEntries
  ELSE LET c == load_envfile([file EXCEPT
                                !.lines = SubSeq(@, 1, Len(@) - 1)])
           l == file.lines[Len(file.lines)]
       IN IF l.kind = "entry"
          THEN EnvPut(c, l.key, Unquote(Strip(l.val)))
          ELSE c

getenv_EnvFirst(cfg, key, default) ==
  Strip(IF key \in DOMAIN environ THEN environ[key]
        ELSE IF key \in DOMAIN cfg THEN cfg[key] ELSE default)

\* cfg.get(key, os.getenv(key, default)).strip()
getenv(cfg, key, default) ==
  Strip(IF key \in DOMAIN cfg THEN cfg[key]
        ELSE IF key \in DOMAIN environ THEN environ[key] ELSE default)

\* try: return int(getenv(...)) except Exception: return default
getenv_int(cfg, key, default) ==
  LET v == getenv(cfg, key, StrOf(default)) IN
  IF v \in IntTexts THEN IntOf(v) ELSE default

\* getenv(cfg, key, "1" if default else "0").lower() in ("1","true","yes","on")
getenv_bool(cfg, key, default) ==
  LowerText(getenv(cfg, key, IF default THEN "1" ELSE "0"))
    \in {"1", "true", "yes", "on"}

\* at most MaxArgs arguments, each the flag or a path
ArgTokens == {"--config", "/etc/x.cfg"}
Args == UNION {[1..n -> ArgTokens] : n \in 0..MaxArgs}

Entry(key, val) == [kind |-> "entry", key |-> key, val |-> val]

\* "# ...", THROTTLE_MAX=5, THROTTLE_MAX=abc, THROTTLE_MAX=, THROTTLE_MAX="7",
\* DRY_RUN=TRUE, ONLY_ACTIONS=Removed
FileLines ==
  { [kind |-> "comment"],
    Entry("THROTTLE_MAX", "5"), Entry("THROTTLE_MAX", "abc"),
    Entry("THROTTLE_MAX", ""), Entry("THROTTLE_MAX", "\"7\""),
    Entry("DRY_RUN", "TRUE"), Entry("ONLY_ACTIONS", "Removed") }

FileOf(lines) == [exists |-> TRUE, lines |-> lines]

Files ==
  {NoFile} \cup
  {FileOf(l) : l \in UNION {[1..n -> FileLines] : n \in 0..MaxFileLines}}

EnvValues(key) ==
  CASE key = "THROTTLE_MAX" -> {Unset, "7", " 7 ", "abc"}
    [] key = "DRY_RUN"      -> {Unset, "1"}
    [] key = "ONLY_ACTIONS" -> {Unset, "added"}
    [] OTHER                -> {Unset}

Environs ==
  { [k \in {x \in ConfigKeys : f[x] /= Unset} |-> f[k]] :
      f \in {g \in [ConfigKeys -> {Unset, "7", " 7 ", "abc", "1", "added"}] :
               \A k \in ConfigKeys : g[k] \in EnvValues(k)} }

MissingConfigValue_Never(a) == FALSE

\* argv[argv.index("--config") + 1] raises: the first "--config" is the last
\* argument
MissingConfigValue(a) ==
  /\ \E i \in DOMAIN a : a[i] = "--config"
  /\ \A i \in DOMAIN a : a[i] = "--config" => i = Len(a)

\* main() up to load_envfile: sys.exit(2) when --config has no path after it
ParseArgs ==
  /\ \A r \in Runs : pc[r] = "args"
  /\ IF MissingConfigValue(argv)
     THEN /\ pc' = [r \in Runs |-> "done"]
          /\ status' = [r \in Runs |-> "usage"]
     ELSE /\ pc' = [r \in Runs |-> "settings"]
          /\ UNCHANGED status
  /\ UNCHANGED <<cfgVars, now, stdin, cache, events, disp, last, admittedAt,
                 rateLog>>

\* cfg = load_envfile(cfg_path); the settings; the two closures
ResolveSettings ==
  /\ \A r \in Runs : pc[r] = "settings"
  /\ LET cfg == load_envfile(cfgfile) IN
     /\ only_actions' =
          SplitActions(LowerText(getenv(cfg, "ONLY_ACTIONS", "added,removed")))
     /\ throttle_window' =
          getenv_int(cfg, "THROTTLE_WINDOW_SEC", DefaultThrottleWindow)
     /\ throttle_max' = getenv_int(cfg, "THROTTLE_MAX", DefaultThrottleMax)
     /\ dedup_ttl' = getenv_int(cfg, "DEDUP_TTL_SEC", DefaultDedupTtl)
     /\ dry_run' = [r \in Runs |-> getenv_bool(cfg, "DRY_RUN", FALSE)]
  /\ cache' = [r \in Runs |-> EmptyCache]
  /\ events' = [r \in Runs |-> <<>>]
  /\ pc' = [r \in Runs |-> "read"]
  /\ UNCHANGED <<inVars, tg_set, mail_set, now, stdin, status, disp, last,
                 admittedAt, rateLog>>

\* the exit status of the process
ExitCode(st) == IF st = "usage" THEN 2 ELSE 0

\* both processes at the start of main()
AtStart ==
  /\ only_actions = Unset
  /\ throttle_window = Unset
  /\ throttle_max = Unset
  /\ dedup_ttl = Unset
  /\ dry_run = Unset
  /\ now = 0
  /\ pc = [r \in Runs |-> "args"]
  /\ status = [r \in Runs |-> "running"]
  /\ cache = [r \in Runs |-> Unmade]
  /\ events = [r \in Runs |-> Unmade]
  /\ disp = [r \in Runs |-> NoDisp]
  /\ last = [r \in Runs |-> NoLast]
  /\ admittedAt = [r \in Runs |-> [k \in Keys |-> NoTime]]
  /\ rateLog = [r \in Runs |-> <<>>]

\* the settings resolved from any file and environment, no input
ConfigInit ==
  /\ argv \in Args
  /\ cfgfile \in Files
  /\ environ \in Environs
  /\ tg_set = FALSE
  /\ mail_set = FALSE
  /\ stdin = 0
  /\ AtStart

ConfigNext ==
  \/ ParseArgs
  \/ ResolveSettings
  \/ EndOfInput

ConfigSpec == ConfigInit /\ [][ConfigNext]_vars

\* the program from its first statement, on at most one line
StartupInit ==
  /\ argv \in Args
  /\ cfgfile \in {NoFile, FileOf(<<Entry("THROTTLE_MAX", "5")>>)}
  /\ environ = NoEntries
  /\ tg_set \in BOOLEAN
  /\ mail_set \in BOOLEAN
  /\ stdin \in 0..1
  /\ AtStart

StartupNext ==
  \/ ParseArgs
  \/ ResolveSettings
  \/ Driver
  \/ Interrupt

StartupSpec == StartupInit /\ [][StartupNext]_vars

\* ================================================================== claims
\* the last step called the deduplicator / the rate limiter
Gated(r) == last[r].dedup /= "skip"
Rated(r) == last[r].rate /= "skip"

\* ---------------------------------------------------------------------- C1
\* C1 as stated: once admit(k) returned true at T, a later admit(k) at t with
\* T < t <= T+ttl is suppressed, and k is admitted again only at t > T+ttl.
C1_Original ==
  \A r \in Runs :
    (Gated(r) /\ dedup_ttl > 0 /\ last[r].prev /= NoTime) =>
      /\ (last[r].prev < last[r].t /\ last[r].t <= last[r].prev + dedup_ttl)
           => last[r].dedup = "suppress"
      /\ last[r].dedup = "admit" => last[r].t > last[r].prev + dedup_ttl

\* C1 amended: for ttl > 0, with T the last time admit(k) returned true, a
\* call admit(k) at time t is suppressed exactly when t < T+ttl; the call at
\* t = T+ttl (and any later one) is admitted.
C1_SuppressedBeforeExpiry ==
  \A r \in Runs :
    (Gated(r) /\ dedup_ttl > 0 /\ last[r].prev /= NoTime) =>
      (last[r].dedup = "suppress" <=> last[r].t < last[r].prev + dedup_ttl)

\* a key is admitted again exactly dedup_ttl after its admission
C1_Witness ==
  \E r \in Runs :
    /\ Gated(r) /\ dedup_ttl > 0 /\ last[r].prev /= NoTime
    /\ last[r].t = last[r].prev + dedup_ttl
    /\ last[r].dedup = "admit"

\* ---------------------------------------------------------------------- C2
\* the retained timestamps whose age is <= window_sec
Retained(r) ==
  {i \in DOMAIN events[r] : now - events[r][i] <= throttle_window}

\* C2 as stated: for any window_sec >= 0 and any integer max_events, the
\* number of retained timestamps of age <= window_sec never exceeds max_events.
C2_Original ==
  \A r \in Runs :
    throttle_window >= 0 => Cardinality(Retained(r)) <= throttle_max

\* C2 amended: for any window_sec >= 0 and any max_events >= 0, the number of
\* retained timestamps of age <= window_sec never exceeds max_events.
C2_RetainedWithinCap ==
  \A r \in Runs :
    (throttle_window >= 0 /\ throttle_max >= 0) =>
      Cardinality(Retained(r)) <= throttle_max

\* the limiter is at a positive cap and has just refused a call
C2_Witness ==
  \E r \in Runs :
    /\ throttle_window >= 0 /\ throttle_max > 0
    /\ Cardinality(Retained(r)) = throttle_max
    /\ last[r].rate = "suppress"

\* ---------------------------------------------------------------------- C3
\* the admitted calls before the last call
PriorLog(r) ==
  IF last[r].rate = "admit"
  THEN SubSeq(rateLog[r], 1, Len(rateLog[r]) - 1)
  ELSE rateLog[r]

\* the sliding-window reference: the admitted calls at s with t - s <= w
InWindow(log, t, w) == {i \in DOMAIN log : t - log[i] <= w}

\* the admitted calls in the closed interval [a, a + w]
InInterval(log, a, w) == {i \in DOMAIN log : a <= log[i] /\ log[i] <= a + w}

SlidingDecision(r) ==
  Rated(r) =>
    (last[r].rate = "admit" <=>
       Cardinality(InWindow(PriorLog(r), last[r].t, throttle_window))
         < throttle_max)

\* the admitted calls, and the last call after them, saw clock values that
\* never went back
Sorted(log) == \A i, j \in DOMAIN log : i < j => log[i] <= log[j]

TimeOrdered(r) ==
  /\ Sorted(rateLog[r])
  /\ Rated(r) => \A i \in DOMAIN PriorLog(r) : PriorLog(r)[i] <= last[r].t

IntervalCap(r) ==
  \A a \in 0..MaxTime :
    Cardinality(InInterval(rateLog[r], a, throttle_window)) <= throttle_max

\* C3 as stated: admit() at t returns true exactly when fewer than max_events
\* earlier calls were admitted at s with t - s <= window_sec; consequently no
\* closed interval of length window_sec holds more than max_events admitted
\* calls.
C3_Original ==
  \A r \in Runs :
    /\ SlidingDecision(r)
    /\ throttle_window >= 0 => IntervalCap(r)

\* C3 amended: while the clock values the calls see never go back, admit()
\* at t returns true exactly when fewer than max_events earlier calls were
\* admitted at s with t - s <= window_sec; consequently, for max_events >= 0,
\* no closed interval of length window_sec holds more than max_events
\* admitted calls.
C3_SlidingWindow ==
  \A r \in Runs :
    TimeOrdered(r) =>
      /\ SlidingDecision(r)
      /\ (throttle_window >= 0 /\ throttle_max >= 0) => IntervalCap(r)

\* a call is admitted although max_events calls were admitted before it: the
\* oldest has aged out of the window
C3_Witness ==
  \E r \in Runs :
    /\ TimeOrdered(r)
    /\ throttle_max > 0 /\ throttle_window >= 0
    /\ last[r].rate = "admit"
    /\ Len(PriorLog(r)) >= throttle_max
    /\ Cardinality(InWindow(PriorLog(r), last[r].t, throttle_window))
         = throttle_max - 1

\* C3 as stated, for max_events >= 0 only: what is left of it when the clock
\* is set back
C3_OriginalPositiveCap ==
  \A r \in Runs : throttle_max >= 0 => SlidingDecision(r)

\* ---------------------------------------------------------------------- C4
\* C4: a line the deduplicator suppresses leaves the rate limiter's recorded
\* timestamps as they were: the rate gate is not called for it.
C4_DuplicateSparesRate ==
  [][\A r \in Runs :
       (stdin' = stdin - 1 /\ last'[r].dedup = "suppress") =>
         (events'[r] = events[r] /\ rateLog'[r] = rateLog[r])]_vars

\* the limiter is at its cap and the line just read was a duplicate
C4_Witness ==
  \E r \in Runs :
    /\ last[r].dedup = "suppress"
    /\ throttle_max > 0
    /\ Len(events[r]) >= throttle_max

\* ---------------------------------------------------------------------- C5
\* C5: an event whose normalized key (action as enum, prefix, neighbor) was
\* admitted less than dedup_ttl ago is suppressed, whatever the letter case
\* of its action token.
C5_SameEventSuppressed ==
  \A r \in Runs :
    (Gated(r) /\ dedup_ttl > 0 /\ last[r].nprev /= NoTime
       /\ last[r].t < last[r].nprev + dedup_ttl)
      => last[r].dedup = "suppress"

\* ---------------------------------------------------------------------- C6
\* C6: after a suppressed duplicate the entry of the key still holds the
\* expiry of its admission, T + ttl.
C6_NoRefresh ==
  \A r \in Runs :
    last[r].dedup = "suppress" =>
      /\ last[r].key \in DOMAIN cache[r]
      /\ cache[r][last[r].key] = last[r].prev + dedup_ttl

\* a duplicate suppressed at a time later than the admission
C6_Witness ==
  \E r \in Runs :
    /\ last[r].dedup = "suppress"
    /\ last[r].t > last[r].prev

\* ---------------------------------------------------------------------- C7
\* C7: after every line the dry run and the live run hold the same dedup
\* table and rate window and made the same decisions, and the dry run has
\* called no sender.
C7_DryRunSameAdmission ==
  /\ cache["dry"] = cache["live"]
  /\ events["dry"] = events["live"]
  /\ last["dry"] = last["live"]
  /\ admittedAt["dry"] = admittedAt["live"]
  /\ rateLog["dry"] = rateLog["live"]
  /\ disp["dry"] = NoDisp
  /\ pc["dry"] \in {"read", "done"}

\* both runs admitted the line, the live run has sent, the dry run has not
C7_Witness ==
  /\ last["dry"].rate = "admit"
  /\ cache["dry"] /= EmptyCache
  /\ disp["live"].tg \in SendOutcomes
  /\ disp["dry"].tg = "none"

\* ---------------------------------------------------------------------- C8
\* the last line read was admitted by both gates in live mode
Dispatched(r) == last[r].rate = "admit" /\ ~dry_run[r]

Failure == {"failed", "raised"}

\* C8: once the dispatch of an admitted event is over, each configured
\* channel was attempted, whatever the other channel's outcome or
\* configuration, and every failure was logged.
C8_SendersIndependent ==
  \A r \in Runs :
    /\ (Dispatched(r) /\ pc[r] \in {"mail", "read"} /\ tg_set)
         => disp[r].tg \in SendOutcomes
    /\ (Dispatched(r) /\ pc[r] = "read" /\ mail_set)
         => disp[r].mail \in SendOutcomes
    /\ (Dispatched(r) /\ disp[r].tg \in Failure)
         => "telegram" \in disp[r].log
    /\ (Dispatched(r) /\ disp[r].mail \in Failure)
         => "smtp" \in disp[r].log

\* the instant-message send raised and the email send was attempted
C8_Witness ==
  \E r \in Runs :
    /\ Dispatched(r) /\ pc[r] = "read"
    /\ disp[r].tg = "raised"
    /\ disp[r].mail \in SendOutcomes

\* ---------------------------------------------------------------------- C9
\* the last line read did not lead to a dispatch
NoDispatch(r) == last[r].kind /= "none" /\ ~Dispatched(r)

C9_Safe ==
  \A r \in Runs :
    /\ pc[r] = "done" <=> status[r] \in {"eof", "interrupt"}
    /\ status[r] = "eof" => stdin = 0
    /\ NoDispatch(r) => pc[r] = "read"

\* C9: the driver is in its terminal state only after end of input or an
\* interrupt, at end of input every line has been read, a line that is not
\* dispatched leaves the driver reading, and on a finite input the driver
\* eventually reaches the terminal state.
C9_NeverAborts ==
  /\ []C9_Safe
  /\ <>(\A r \in Runs : pc[r] = "done")

\* after a failed send the driver is reading again with lines still to come
C9_Witness ==
  \E r \in Runs :
    /\ Dispatched(r) /\ disp[r].mail \in Failure
    /\ pc[r] = "read" /\ status[r] = "running" /\ stdin > 0

\* --------------------------------------------------------------------- C10
\* an empty line, a line the matcher rejects, or a matched line whose action
\* is not in ONLY_ACTIONS
Discarded(line) ==
  \/ line.kind \in {"empty", "garbage"}
  \/ line.kind = "route" /\ Lower(line.action) \notin only_actions

\* C10: reading a discarded line leaves the dedup table and the rate window
\* exactly as they were and starts no send.
C10_DiscardedBeforeGates ==
  [][\A r \in Runs :
       (stdin' = stdin - 1 /\ Discarded(last'[r].line)) =>
         /\ cache'[r] = cache[r]
         /\ events'[r] = events[r]
         /\ pc'[r] = "read"
         /\ disp'[r] = NoDisp]_vars

\* a matched line with an action outside ONLY_ACTIONS was read while the
\* dedup table held an entry
C10_Witness ==
  \E r \in Runs :
    /\ last[r].line.kind = "route"
    /\ Discarded(last[r].line)
    /\ cache[r] /= EmptyCache

\* --------------------------------------------------------------------- C11
\* C11 as stated: with ttl <= 0 every admit(key) call returns true, for any
\* key and any sequence of calls.
C11_Original ==
  \A r \in Runs :
    (Gated(r) /\ dedup_ttl <= 0) => last[r].dedup = "admit"

\* C11 amended: with ttl <= 0 an admit(key) call returns true whenever its
\* clock value is not before that of the key's previous admission, so under a
\* clock that never goes back every call admits, repeated calls at the same
\* clock value included.
C11_PassThrough ==
  \A r \in Runs :
    (Gated(r) /\ dedup_ttl <= 0 /\ last[r].prev <= last[r].t)
      => last[r].dedup = "admit"

\* with ttl <= 0 a key is admitted again at the clock value of its admission
C11_Witness ==
  \E r \in Runs :
    /\ Gated(r) /\ dedup_ttl <= 0
    /\ last[r].prev = last[r].t
    /\ last[r].dedup = "admit"

\* --------------------------------------------------------------------- C12
\* the shape the matcher is specified to require of the tokens
RECURSIVE Split(_, _)
Split(s, sep) ==
  IF \A i \in DOMAIN s : s[i] /= sep THEN <<s>>
  ELSE LET i == CHOOSE j \in DOMAIN s :
                  s[j] = sep /\ \A k \in 1..(j - 1) : s[k] /= sep
       IN <<SubSeq(s, 1, i - 1)>> \o Split(SubSeq(s, i + 1, Len(s)), sep)

DigitVal(c) == (CHOOSE i \in DOMAIN DigitSeq : DigitSeq[i] = c) - 1

RECURSIVE Value(_)
Value(s) ==
  IF s = <<>> THEN 0
  ELSE 10 * Value(SubSeq(s, 1, Len(s) - 1)) + DigitVal(s[Len(s)])

IsUint(s) == Len(s) > 0 /\ \A i \in DOMAIN s : s[i] \in Digits

IsIPv4(s) ==
  LET o == Split(s, ".") IN
  Len(o) = 4 /\ \A i \in DOMAIN o : IsUint(o[i]) /\ Value(o[i]) <= 255

IsCidr(s) ==
  LET p == Split(s, "/") IN
  Len(p) = 2 /\ IsIPv4(p[1]) /\ IsUint(p[2]) /\ Value(p[2]) <= 32

IsCommunity(s) ==
  LET p == Split(s, ":") IN
  Len(p) = 2 /\ IsUint(p[1]) /\ IsUint(p[2])

RequiredShape(raw) ==
  /\ Lower(raw.action) \in {"added", "removed"}
  /\ Len(raw.clauses) >= Len(Canonical)
  /\ SubSeq(raw.clauses, 1, Len(Canonical)) = Canonical
  /\ IsIPv4(raw.tok["neighbor"])
  /\ IsCidr(raw.tok["prefix"])
  /\ IsIPv4(raw.tok["next-hop"])
  /\ IsUint(raw.tok["local-preference"])
  /\ IsCommunity(raw.tok["community"])

Searched(r) == last[r].kind = "searched"

\* C12: a line that deviates from the required shape is rejected, and a match
\* carries every field as it stands in the line.
C12_MalformedRejected ==
  \A r \in Runs :
    Searched(r) =>
      /\ ~RequiredShape(last[r].line) => ~last[r].d.matched
      /\ last[r].d.matched =>
           /\ last[r].d.neighbor = last[r].line.tok["neighbor"]
           /\ last[r].d.prefix = last[r].line.tok["prefix"]
           /\ last[r].d.nexthop = last[r].line.tok["next-hop"]
           /\ last[r].d.lpref = last[r].line.tok["local-preference"]
           /\ last[r].d.comm = last[r].line.tok["community"]

\* what the matcher does guarantee: a line of the required shape matches with
\* its fields intact, and a line with a missing or misplaced clause, a
\* non-numeric local-preference or an address of fewer than four groups is
\* rejected
C12_MatcherFloor ==
  \A r \in Runs :
    Searched(r) =>
      /\ RequiredShape(last[r].line) =>
           /\ last[r].d.matched
           /\ last[r].d.neighbor = last[r].line.tok["neighbor"]
           /\ last[r].d.comm = last[r].line.tok["community"]
      /\ last[r].d.matched =>
           /\ SubSeq(last[r].line.clauses, 1, Len(Canonical)) = Canonical
           /\ IsUint(last[r].line.tok["local-preference"])
           /\ Len(Split(last[r].d.neighbor, ".")) = 4
           /\ Len(Split(last[r].d.nexthop, ".")) = 4

\* --------------------------------------------------------------------- C13
\* the precedence chain as specified: the file's entry if the file has the
\* key (its last entry, unquoted), else the environment's, else the default
FileEntries(key) ==
  {i \in DOMAIN cfgfile.lines :
     cfgfile.exists /\ cfgfile.lines[i].kind = "entry"
                    /\ cfgfile.lines[i].key = key}

FileValue(key) == Unquote(Strip(cfgfile.lines[Max(FileEntries(key))].val))

Winner(key, default) ==
  Strip(IF FileEntries(key) /= {} THEN FileValue(key)
        ELSE IF key \in DOMAIN environ THEN environ[key] ELSE default)

Resolved == \A r \in Runs : pc[r] = "read"

\* C13 as stated: the value used is the file's if the file has the key, else
\* the environment's if set, else the default, also when the file's value of
\* an integer setting is empty or not an integer.
C13_Original ==
  Resolved =>
    /\ StrOf(throttle_max) = Winner("THROTTLE_MAX", "30")
    /\ only_actions = SplitActions(LowerText(Winner("ONLY_ACTIONS",
                                                    "added,removed")))
    /\ \A r \in Runs :
         dry_run[r] = (LowerText(Winner("DRY_RUN", "0"))
                         \in {"1", "true", "yes", "on"})

\* C13 amended: the text resolved for a key is the file's if the file has the
\* key, else the environment's if set, else the default; an integer setting
\* whose resolved text is empty or not an integer takes the hard-coded
\* default, the environment is not consulted again.
C13_Precedence ==
  Resolved =>
    /\ throttle_max =
         (IF Winner("THROTTLE_MAX", "30") \in IntTexts
          THEN IntOf(Winner("THROTTLE_MAX", "30")) ELSE DefaultThrottleMax)
    /\ throttle_window = DefaultThrottleWindow
    /\ dedup_ttl = DefaultDedupTtl
    /\ only_actions = SplitActions(LowerText(Winner("ONLY_ACTIONS",
                                                    "added,removed")))
    /\ \A r \in Runs :
         dry_run[r] = (LowerText(Winner("DRY_RUN", "0"))
                         \in {"1", "true", "yes", "on"})

\* the file's THROTTLE_MAX is not an integer, the environment's is: the
\* default is used
C13_Witness ==
  /\ Resolved
  /\ FileEntries("THROTTLE_MAX") /= {}
  /\ FileValue("THROTTLE_MAX") \notin IntTexts
  /\ "THROTTLE_MAX" \in DOMAIN environ
  /\ Strip(environ["THROTTLE_MAX"]) \in IntTexts
  /\ throttle_max = DefaultThrottleMax

\* --------------------------------------------------------------------- C14
\* --config is the last argument, with nothing after it
FlagWithoutValue ==
  /\ Len(argv) > 0
  /\ argv[Len(argv)] = "--config"
  /\ \A i \in 1..(Len(argv) - 1) : argv[i] /= "--config"

EvictedOnly(old, new, t) ==
  \E k \in 0..Len(old) :
    /\ new = SubSeq(old, k + 1, Len(old))
    /\ \A i \in 1..k : t - old[i] > throttle_window

\* C15: a rate-limiter call that returns false records nothing: the recorded
\* sequence is the one before the call without timestamps older than
\* window_sec, and no admission is logged.
C15_RefusalNotRecorded ==
  [][\A r \in Runs :
       (now' = now /\ last'[r].rate = "suppress") =>
         /\ EvictedOnly(events[r], events'[r], now)
         /\ rateLog'[r] = rateLog[r]]_vars

\* a call was refused at a positive cap at a clock value later than every
\* recorded timestamp
C15_Witness ==
  \E r \in Runs :
    /\ last[r].rate = "suppress" /\ last[r].kind = "call"
    /\ throttle_max > 0
    /\ Len(events[r]) = throttle_max
    /\ \A i \in DOMAIN events[r] : events[r][i] < last[r].t

\* --------------------------------------------------------------------- C16
\* the last line read matched, its action is in ONLY_ACTIONS, the dedup gate
\* and then the rate gate admitted it, and dry-run is off
Notifiable(r) ==
  /\ last[r].line.kind = "route"
  /\ Lower(last[r].line.action) \in only_actions
  /\ last[r].dedup = "admit"
  /\ last[r].rate = "admit"
  /\ ~dry_run[r]

Attempted(o) == o \in SendOutcomes

\* the driver is back at the read after the last line
LineDone(r) == pc[r] = "read" /\ last[r].kind /= "none"

C16_State ==
  \A r \in Runs :
    /\ last[r].rate /= "skip" => last[r].dedup = "admit"
    /\ LineDone(r) =>
         /\ Attempted(disp[r].tg) <=> (tg_set /\ Notifiable(r))
         /\ Attempted(disp[r].mail) <=> (mail_set /\ Notifiable(r))
    /\ (Attempted(disp[r].tg) \/ Attempted(disp[r].mail)) => Notifiable(r)

C16_Step ==
  \A r \in Runs :
    \* a channel is attempted once per line
    /\ disp'[r].tg /= disp[r].tg => (disp[r].tg = "none" \/ disp'[r].tg = "none")
    /\ disp'[r].mail /= disp[r].mail
         => (disp[r].mail = "none" \/ disp'[r].mail = "none")
    \* instant message before email
    /\ (Attempted(disp'[r].mail) /\ ~Attempted(disp[r].mail) /\ tg_set)
         => Attempted(disp[r].tg)
    \* the next line is read only when the attempts for this one are over
    /\ stdin' = stdin - 1 =>
         /\ pc[r] = "read"
         /\ (last[r].kind /= "none" /\ Notifiable(r) /\ tg_set)
              => Attempted(disp[r].tg)
         /\ (last[r].kind /= "none" /\ Notifiable(r) /\ mail_set)
              => Attempted(disp[r].mail)

\* C16: each line causes at most one attempt per configured channel; a
\* channel is attempted exactly when the line matched, its action is in
\* ONLY_ACTIONS, the dedup gate and then the rate gate admitted it and dry-run
\* is off; the attempts for a line are over before the next line is read.
C16_OneLineAtATime == []C16_State /\ [][C16_Step]_vars

\* two lines were notified one after the other on both channels
C16_Witness ==
  \E r \in Runs :
    /\ LineDone(r) /\ Notifiable(r)
    /\ Len(rateLog[r]) = 2
    /\ Attempted(disp[r].tg) /\ Attempted(disp[r].mail)

\* --------------------------------------------------------------------- C17
\* the state right after a call of the rate limiter
AfterRateCall(r) ==
  last[r].kind = "call" /\ Rated(r) /\ now = last[r].t

\* what the eviction of the last call kept: the recorded timestamps without
\* the one the call itself appended
Kept(r) ==
  IF last[r].rate = "admit"
  THEN SubSeq(events[r], 1, Len(events[r]) - 1)
  ELSE events[r]

\* the eviction kept no timestamp older than window_sec
NoneLeftBehind(r) ==
  \A i \in DOMAIN Kept(r) : now - Kept(r)[i] <= throttle_window

\* C17 as stated: for every sequence of admit() calls the recorded timestamps
\* are non-decreasing from the oldest end to the newest, and evicting from
\* the oldest end leaves no timestamp older than window_sec behind.
C17_Original ==
  \A r \in Runs :
    /\ Sorted(events[r])
    /\ AfterRateCall(r) => NoneLeftBehind(r)

\* C17 amended: for every sequence of admit() calls whose clock values never
\* go back, the recorded timestamps are non-decreasing from the oldest end to
\* the newest, and evicting from the oldest end leaves no timestamp older
\* than window_sec behind.
C17_FifoInTimeOrder ==
  \A r \in Runs :
    TimeOrdered(r) =>
      /\ Sorted(events[r])
      /\ AfterRateCall(r) => NoneLeftBehind(r)

\* a call in time order has evicted two timestamps at once and kept one
C17_Witness ==
  \E r \in Runs :
    /\ TimeOrdered(r) /\ AfterRateCall(r)
    /\ throttle_window >= 0
    /\ last[r].rate = "admit"
    /\ Len(PriorLog(r)) >= 3
    /\ Len(events[r]) = 2

\* --------------------------------------------------------------------- C18
\* the rate limiter would admit a call made now
RateWouldAdmit(r) ==
  ThrottlerAllowed(events[r], now, throttle_window, throttle_max).ok

\* C18: an event that passes the dedup gate and is refused by the rate gate
\* leaves its key in the dedup table with its expiry and starts no send; every
\* admitted key keeps its entry until the expiry whatever the rate gate
\* decided, so the same key arriving before the expiry is suppressed as a
\* duplicate and does not reach the rate gate.
C18_KeyStaysAfterRateRefusal ==
  \A r \in Runs :
    /\ (last[r].dedup = "admit" /\ last[r].rate = "suppress") =>
         /\ last[r].key \in DOMAIN cache[r]
         /\ cache[r][last[r].key] = last[r].t + dedup_ttl
         /\ pc[r] = "read" /\ disp[r] = NoDisp
    /\ \A k \in Keys :
         (admittedAt[r][k] /= NoTime /\ now < admittedAt[r][k] + dedup_ttl) =>
           /\ k \in DOMAIN cache[r]
           /\ cache[r][k] = admittedAt[r][k] + dedup_ttl
    /\ (Gated(r) /\ last[r].prev /= NoTime
          /\ last[r].t < last[r].prev + dedup_ttl) =>
         (last[r].dedup = "suppress" /\ last[r].rate = "skip")

\* a duplicate is suppressed although the rate limiter would admit a call
\* now, and the rate gate has admitted nothing since the key was recorded:
\* the key is in the table and was never notified
C18_Witness ==
  \E r \in Runs :
    /\ ~dry_run[r]
    /\ last[r].dedup = "suppress"
    /\ RateWouldAdmit(r)
    /\ rateLog[r] /= <<>>
    /\ \A i \in DOMAIN rateLog[r] : rateLog[r][i] < last[r].prev
\* ---------------------------------------------------------------------- C19
Dispatching(r) == pc[r] \in {"tg", "mail"}

SendFailed(r) == disp[r].log /= {}

\* the event being dispatched went through both gates and is on record:
\* its key with expiry t + ttl, its timestamp at the tail of the window
Committed(r) ==
  /\ last[r].dedup = "admit"
  /\ last[r].rate = "admit"
  /\ last[r].key \in DOMAIN cache[r]
  /\ cache[r][last[r].key] = last[r].t + dedup_ttl
  /\ events[r] /= <<>>
  /\ events[r][Len(events[r])] = last[r].t

\* each sender is entered at most once per event
NotResent(r) ==
  /\ pc[r] = "tg" => disp[r].tg = "none" /\ disp[r].mail = "none"
  /\ pc[r] = "mail" => disp[r].mail = "none"

C19_State ==
  \A r \in Runs :
    /\ NotResent(r)
    /\ (Dispatching(r) \/ SendFailed(r)) => Committed(r)

\* a sender returning, whatever its outcome, leaves both tables alone and
\* moves on to the next sender or the next line
SendStep(r) ==
  (Dispatching(r) /\ pc'[r] /= "done") =>
    /\ cache'[r] = cache[r]
    /\ events'[r] = events[r]
    /\ pc[r] = "tg" => pc'[r] \in {"tg", "mail"}
    /\ pc[r] = "mail" => pc'[r] \in {"mail", "read"}

\* the gates decide a line from the earlier admissions and the clock alone;
\* what the senders returned for those admissions is not among the inputs
DecidedByAdmissions(r) ==
  (stdin' < stdin /\ last'[r].kind = "event") =>
    LET key == last'[r].key
        t == last'[r].t IN
    /\ last'[r].dedup = "suppress" <=>
         (admittedAt[r][key] /= NoTime /\ t < admittedAt[r][key] + dedup_ttl)
    /\ last'[r].dedup = "admit" =>
         (last'[r].rate = "suppress" <=>
            Cardinality(InWindow(rateLog[r], t, throttle_window))
              >= throttle_max)

\* C19: once both gates admitted an event, its dedup entry and its rate
\* timestamp are on record before the senders run; a sender that fails leaves
\* them exactly as a sender that succeeds does, no sender is entered twice
\* for the event, and the gates decide every later line from the recorded
\* admissions and the clock only
C19_CommittedBeforeDispatch ==
  /\ []C19_State
  /\ [][\A r \in Runs : SendStep(r) /\ DecidedByAdmissions(r)]_vars

\* both senders failed for an event and the loop is back at the read with the
\* event's key and timestamp still on record
C19_Witness ==
  \E r \in Runs :
    /\ pc[r] = "read"
    /\ disp[r].log = {"telegram", "smtp"}
    /\ disp[r].tg = "failed"
    /\ disp[r].mail = "raised"
    /\ Committed(r)
\* ---------------------------------------------------------------------- C20
\* C20 as stated: for ttl > 0, right after every dedup call made at clock
\* value t, every entry of the table has an expiry e with t < e <= t + ttl.
C20_Original ==
  \A r \in Runs :
    (Gated(r) /\ dedup_ttl > 0) =>
      \A k \in DOMAIN cache[r] :
        /\ last[r].t < cache[r][k]
        /\ cache[r][k] <= last[r].t + dedup_ttl

\* keys whose last admission, at T, has not expired at t: t < T + ttl
Unexpired(r, t) ==
  {k \in Keys : admittedAt[r][k] /= NoTime /\ t < admittedAt[r][k] + dedup_ttl}

\* C20 amended: for ttl > 0, right after every dedup call made at clock value
\* t (admitting or suppressing), the table holds the key of the call, and
\* every entry is the one entry of a key whose last admission, at T, satisfies
\* t < T + ttl; the entry's expiry is e = T + ttl, so t < e and no expired
\* entry survives the call; and e <= t + ttl for every entry whose admission
\* was not after t, which is every entry when the clock never goes back.
C20_TableAfterCall ==
  \A r \in Runs :
    (Gated(r) /\ dedup_ttl > 0) =>
      /\ last[r].key \in DOMAIN cache[r]
      /\ DOMAIN cache[r] \subseteq Unexpired(r, last[r].t)
      /\ \A k \in DOMAIN cache[r] :
           /\ cache[r][k] = admittedAt[r][k] + dedup_ttl
           /\ last[r].t < cache[r][k]
           /\ admittedAt[r][k] <= last[r].t
                => cache[r][k] <= last[r].t + dedup_ttl

\* a suppressing call leaves two entries behind, one per key, admitted at
\* different times, the older one before the call, both unexpired
C20_Witness ==
  \E r \in Runs :
    /\ Gated(r) /\ dedup_ttl > 0
    /\ last[r].dedup = "suppress"
    /\ \E j, k \in DOMAIN cache[r] :
         /\ cache[r][j] < cache[r][k]
         /\ admittedAt[r][j] < last[r].t
         /\ cache[r][k] <= last[r].t + dedup_ttl
====
